---- MODULE Spec2Model ----
(***************************************************************************)
(* A model of mta-go's in-memory store (internal/store/store.go) and of    *)
(* the feed manager that refreshes it (internal/feed/feed.go).             *)
(*                                                                         *)
(* Go strings are sequences of one-character strings, so that upper-casing *)
(* and byte-wise comparison are computed character by character.          *)
(***************************************************************************)
EXTENDS Integers, Sequences, FiniteSets, TLC

VARIABLES
    now,              \* the wall clock read by time.Now()
    stations,         \* Store.stations: stop identifier -> Station
    stationsByRoute,  \* Store.stationsByRoute: route code -> sequence of Station
    routes,           \* Store.routes
    alerts,           \* Store.alerts
    lastUpdate,       \* Store.lastUpdate
    mu,               \* Store.mu: 0 when free, else the writer holding it
    wpc,              \* per caller of UpdateStations: "idle" or "locked"
    warg,             \* per caller of UpdateStations: its stations argument
    held,             \* the last query result a client received and still holds
    nmut,             \* how often a client wrote through a result it holds
    epc,              \* where the feed manager's goroutine is
    staticsLoaded,    \* Manager.staticsLoaded
    lastStaticUpdate, \* Manager.lastStaticUpdate
    staticUpdateInterval, \* Manager.staticUpdateInterval
    work,             \* updateRealTimeData's local map `stations`
    feedIx,           \* the index into FeedURLs of the feed processed next
    cycles,           \* the number of update() calls begun
    didStatic,        \* this update() installed a static catalog
    okFeeds,          \* the feeds this update() fetched and decoded
    cycleAlerts,      \* the alerts this update() created, in order
    stopCh,           \* Manager.stopCh: "open" or "closed"
    spc,              \* where the caller of Manager.Stop is
    tickReady         \* a tick is waiting in ticker.C

clientVars == <<wpc, warg, held, nmut>>
stopVars == <<stopCh, spc>>
storeVars == <<stations, stationsByRoute, routes, alerts, lastUpdate, mu>>
configVars == <<staticUpdateInterval>>
tickerVars == <<tickReady>>
engineVars == <<epc, staticsLoaded, lastStaticUpdate, work, feedIx, cycles,
                didStatic, okFeeds, cycleAlerts, stopCh, spc,
                staticUpdateInterval, tickReady>>
vars == <<now, stations, stationsByRoute, routes, alerts, lastUpdate, mu,
          wpc, warg, held, nmut, epc, staticsLoaded, lastStaticUpdate, work,
          feedIx, cycles, didStatic, okFeeds, cycleAlerts, stopCh, spc,
          staticUpdateInterval, tickReady>>

(***************************************************************************)
(* Strings                                                                 *)
(***************************************************************************)
LowerCase == <<"a","b","c","d","e","f","g","h","i","j","k","l","m",
               "n","o","p","q","r","s","t","u","v","w","x","y","z">>
UpperCase == <<"A","B","C","D","E","F","G","H","I","J","K","L","M",
               "N","O","P","Q","R","S","T","U","V","W","X","Y","Z">>
Digits == <<"0","1","2","3","4","5","6","7","8","9">>

\* The characters of the model in ascending byte order.
ByteOrder == <<" ">> \o Digits \o UpperCase \o <<"_">> \o LowerCase

Code(c) == CHOOSE i \in DOMAIN ByteOrder : ByteOrder[i] = c

\* Go's < on strings: byte-wise lexicographic.
RECURSIVE StrLess(_, _)
StrLess(a, b) ==
    IF b = <<>> THEN FALSE
    ELSE IF a = <<>> THEN TRUE
    ELSE IF Head(a) # Head(b) THEN Code(Head(a)) < Code(Head(b))
    ELSE StrLess(Tail(a), Tail(b))

UpperOf(c) ==
    IF \E i \in DOMAIN LowerCase : LowerCase[i] = c
    THEN UpperCase[CHOOSE i \in DOMAIN LowerCase : LowerCase[i] = c]
    ELSE c

LowerOf(c) ==
    IF \E i \in DOMAIN UpperCase : UpperCase[i] = c
    THEN LowerCase[CHOOSE i \in DOMAIN UpperCase : UpperCase[i] = c]
    ELSE c

\* strings.ToUpper
ToUpper(s) == [i \in DOMAIN s |-> UpperOf(s[i])]

\* strings.ToLower (the callers' lower-casing of a route code)
ToLower(s) == [i \in DOMAIN s |-> LowerOf(s[i])]

(***************************************************************************)
(* Sequences and sorting                                                   *)
(***************************************************************************)
Range(s) == {s[i] : i \in DOMAIN s}

Perms(n) == {p \in [1..n -> 1..n] : \A i, j \in 1..n : i # j => p[i] # p[j]}

\* Every arrangement of the sequence s.
Arrangements(s) == {[i \in DOMAIN s |-> s[p[i]]] : p \in Perms(Len(s))}

\* sort.Strings on a set of distinct strings.
RECURSIVE SortStrings(_)
SortStrings(S) ==
    IF S = {} THEN <<>>
    ELSE LET m == CHOOSE x \in S : \A y \in S \ {x} : StrLess(x, y)
         IN  <<m>> \o SortStrings(S \ {m})

(***************************************************************************)
(* Time                                                                    *)
(***************************************************************************)
\* Model time units per second: instants are finer than whole seconds.
Second == 2
Minute == 60 * Second

\* time.Time.Unix(): whole seconds.
Unix(t) == t \div Second
\* time.Unix(sec, 0)
TimeUnix(sec) == sec * Second

(***************************************************************************)
(* Stations.  A Station struct is modelled by its value.  The slices       *)
(* Routes, Trains.North and Trains.South and the map Stops are references  *)
(* in Go: a struct copy shares them with the original.  The model keeps    *)
(* the values in the record and tracks the sharing where a copy is made    *)
(* (see `held`).                                                           *)
(***************************************************************************)
Loc(lat, lon) == [Lat |-> lat, Lon |-> lon]
Train(route, t) == [Route |-> route, Time |-> t]

Put(f, k, v) == [x \in DOMAIN f \cup {k} |-> IF x = k THEN v ELSE f[x]]

(***************************************************************************)
(* Store (internal/store/store.go)                                         *)
(***************************************************************************)
ZeroTime == 0

\* s.mu.RLock() returns only while no writer holds the lock.
CanRead == mu = 0

\* UpdateStations without its s.mu.Lock().
CanLockUnguarded == TRUE

\* s.mu.Lock() returns only while nobody holds the lock.
CanLock == mu = 0

NameLess(a, b) == StrLess(a.Name, b.Name)

\* sort.Slice(list, by name) is not stable and the list is filled in
\* map-iteration order: every arrangement of the list in which no station
\* is followed by one of a smaller name can come out.
SortByName(list) ==
    {t \in Arrangements(list) :
        \A i \in 1..(Len(t) - 1) : ~NameLess(t[i + 1], t[i])}

RECURSIVE Repeat(_, _)
Repeat(x, n) == IF n = 0 THEN <<>> ELSE <<x>> \o Repeat(x, n - 1)

\* append(s.stationsByRoute[route], station) for every occurrence of route
\* in station.Routes, over the stations of m.
RECURSIVE Appended(_, _, _)
Appended(m, keys, route) ==
    IF keys = <<>> THEN <<>>
    ELSE LET st == m[Head(keys)]
             n == Cardinality({i \in DOMAIN st.Routes : st.Routes[i] = route})
         IN  Repeat(st, n) \o Appended(m, Tail(keys), route)

RouteSet(m) == UNION {Range(m[k].Routes) : k \in DOMAIN m}

\* The index rebuilt without the sort.Slice of each route's list.
RECURSIVE IndexOutcomesUnsorted(_, _)
IndexOutcomesUnsorted(m, rts) ==
    IF rts = {} THEN {<<>>}
    ELSE LET r == CHOOSE x \in rts : TRUE
         IN  {Put(f, r, l) :
                 f \in IndexOutcomesUnsorted(m, rts \ {r}),
                 l \in Arrangements(Appended(m, SortStrings(DOMAIN m), r))}

\* The rebuilt index: for every route the stations that claim it, sorted
\* by name with sort.Slice.
RECURSIVE IndexOutcomes(_, _)
IndexOutcomes(m, rts) ==
    IF rts = {} THEN {<<>>}
    ELSE LET r == CHOOSE x \in rts : TRUE
         IN  {Put(f, r, l) :
                 f \in IndexOutcomes(m, rts \ {r}),
                 l \in SortByName(Appended(m, SortStrings(DOMAIN m), r))}

\* s.routes: the keys of routeSet, sorted with sort.Strings.
RouteList(m) == SortStrings(RouteSet(m))

\* GetStationsByRoute without its strings.ToUpper.
GetStationsByRouteExact(route) ==
    IF route \notin DOMAIN stationsByRoute
    THEN [err |-> TRUE, result |-> <<>>]
    ELSE [err |-> FALSE, result |-> stationsByRoute[route]]

\* GetStationsByRoute: the result and whether it is the "not found" error.
GetStationsByRoute(route) ==
    LET r == ToUpper(route)
    IN  IF r \notin DOMAIN stationsByRoute
        THEN [err |-> TRUE, result |-> <<>>]
        ELSE [err |-> FALSE, result |-> stationsByRoute[r]]

RECURSIVE LookupIDs(_)
LookupIDs(ids) ==
    IF ids = <<>> THEN <<>>
    ELSE (IF Head(ids) \in DOMAIN stations THEN <<stations[Head(ids)]>> ELSE <<>>)
         \o LookupIDs(Tail(ids))

\* GetStationsByIDs failing as soon as one identifier is unknown.
GetStationsByIDsStrict(ids) ==
    LET result == LookupIDs(ids)
    IN  IF Len(result) < Len(ids) \/ Len(result) = 0
        THEN [err |-> TRUE, result |-> <<>>]
        ELSE [err |-> FALSE, result |-> result]

GetStationsByIDs(ids) ==
    LET result == LookupIDs(ids)
    IN  IF Len(result) = 0
        THEN [err |-> TRUE, result |-> <<>>]
        ELSE [err |-> FALSE, result |-> result]

\* Twice the cosine of an angle of k units.  A coordinate of the model is
\* a whole number of units of sixty degrees, which keeps the haversine exact.
Cos2(k) == <<2, 1, -1, -2, -1, 1>>[(k % 6) + 1]

\* distance: sixteen times the haversine `a` of the two points.  The
\* kilometres the code returns, R * 2 * atan2(sqrt(a), sqrt(1 - a)), grow
\* strictly with a.
distance(lat1, lon1, lat2, lon2) ==
    8 - 4 * Cos2(lat2 - lat1)
      + Cos2(lat1) * Cos2(lat2) * (2 - Cos2(lon2 - lon1))

\* The stations of the map, listed in some order.
StationList ==
    LET ids == SortStrings(DOMAIN stations)
    IN  [i \in DOMAIN ids |-> stations[ids[i]]]

DistanceTo(st, lat, lon) == distance(lat, lon, st.Location.Lat, st.Location.Lon)

\* A list left in whatever order it was filled.
SortByDistanceSkipped(list, lat, lon) == Arrangements(list)

\* sort.Slice(stations, by distance) on a list filled in map-iteration
\* order: every arrangement in which no station follows a farther one.
SortByDistance(list, lat, lon) ==
    {t \in Arrangements(list) :
        \A i \in 1..(Len(t) - 1) :
            ~(DistanceTo(t[i + 1], lat, lon) < DistanceTo(t[i], lat, lon))}

Min(a, b) == IF a < b THEN a ELSE b

\* GetStationsByLocation: what it can return.  make([]Station, 0, limit)
\* panics for a negative limit, which err stands for here.
GetStationsByLocation(lat, lon, limit) ==
    IF limit < 0 THEN {[err |-> TRUE, result |-> <<>>]}
    ELSE {[err |-> FALSE, result |-> SubSeq(t, 1, Min(limit, Len(t)))] :
             t \in SortByDistance(StationList, lat, lon)}

GetRoutes == routes

GetServiceAlerts == alerts

GetLastUpdate == lastUpdate

\* A store that is born with a route.
NewStoreStocked ==
    /\ stations = <<>>
    /\ stationsByRoute = <<>>
    /\ alerts = <<>>
    /\ routes = << <<"N">> >>
    /\ lastUpdate = ZeroTime
    /\ mu = 0

NewStore ==
    /\ stations = <<>>
    /\ stationsByRoute = <<>>
    /\ alerts = <<>>
    /\ routes = <<>>
    /\ lastUpdate = ZeroTime
    /\ mu = 0

(***************************************************************************)
(* Feed manager (internal/feed/feed.go): the pure parts                    *)
(***************************************************************************)
\* A pointer or an optional field of a decoded message: nil, or a value.
Null == <<>>
Some(v) == <<v>>
Deref(p) == p[1]

IsDigit(c) == c \in Range(Digits)

\* The number of digits of s from position i on, up to the first non-digit.
RECURSIVE DigitRun(_, _)
DigitRun(s, i) ==
    IF i > Len(s) \/ ~IsDigit(s[i]) THEN 0 ELSE 1 + DigitRun(s, i + 1)

\* extractRouteFromID (positions are Go's index + 1).
extractRouteFromID(routeID) ==
    LET n == Len(routeID)
        cuts == {i \in 2..n : IsDigit(routeID[i]) /\ DigitRun(routeID, i) >= 4}
    IN  IF n >= 8 /\ \A i \in (n - 7)..n : IsDigit(routeID[i])
        THEN SubSeq(routeID, 1, n - 8)
        ELSE IF cuts # {}
        THEN SubSeq(routeID, 1, (CHOOSE i \in cuts : \A j \in cuts : i <= j) - 1)
        ELSE routeID

\* The last character of a stop identifier, if it names a direction.
HasDirection(stopID) ==
    Len(stopID) > 0 /\ stopID[Len(stopID)] \in {"N", "S"}

ParentStation(stopID) ==
    IF HasDirection(stopID) THEN SubSeq(stopID, 1, Len(stopID) - 1) ELSE stopID

\* A direction for every stop identifier: North unless it ends in S.
DirectionGuessed(stopID) ==
    IF HasDirection(stopID) /\ stopID[Len(stopID)] = "S" THEN "South"
    ELSE "North"

Direction(stopID) ==
    IF ~HasDirection(stopID) THEN ""
    ELSE IF stopID[Len(stopID)] = "N" THEN "North" ELSE "South"

\* processTripUpdate's loop over tripUpdate.StopTimeUpdate from position i
\* on: the first sub-event that is refused returns from the function.
RECURSIVE StopTimeUpdates(_, _, _, _, _)
StopTimeUpdates(w, routeName, stus, i, t) ==
    IF i > Len(stus) THEN w
    ELSE LET stu == stus[i]
         IN  IF stu.StopId = Null \/ stu.Arrival = Null THEN w
             ELSE LET parent == ParentStation(Deref(stu.StopId))
                      dir == Direction(Deref(stu.StopId))
                      arr == Deref(stu.Arrival)
                  IN  IF parent \notin DOMAIN w THEN w
                      ELSE IF arr.Time = Null /\ arr.Delay = Null THEN w
                      ELSE LET at == IF arr.Time # Null
                                     THEN TimeUnix(Deref(arr.Time))
                                     ELSE t + Deref(arr.Delay) * Second
                               train == Train(routeName, at)
                           IN  IF t - at > Minute THEN w
                               ELSE IF dir = "North"
                               THEN StopTimeUpdates(
                                       [w EXCEPT ![parent].Trains.North =
                                                     Append(@, train)],
                                       routeName, stus, i + 1, t)
                               ELSE IF dir = "South"
                               THEN StopTimeUpdates(
                                       [w EXCEPT ![parent].Trains.South =
                                                     Append(@, train)],
                                       routeName, stus, i + 1, t)
                               ELSE w

\* processTripUpdate: the working copy after the trip update, at time t.
processTripUpdate(tripUpdate, w, t) ==
    IF tripUpdate.Trip = Null \/ Deref(tripUpdate.Trip).RouteId = Null THEN w
    ELSE LET routeName ==
                 extractRouteFromID(Deref(Deref(tripUpdate.Trip).RouteId))
         IN  IF routeName = <<>> THEN w
             ELSE StopTimeUpdates(w, routeName, tripUpdate.StopTimeUpdate, 1, t)

\* strconv's decimal digits of a natural number (the %d of fmt.Sprintf).
RECURSIVE Itoa(_)
Itoa(n) ==
    IF n < 10 THEN <<Digits[n + 1]>>
    ELSE Itoa(n \div 10) \o <<Digits[(n % 10) + 1]>>

\* A key that tells apart the instants within a second.
TrainKeyExact(train) == train.Route \o <<"_">> \o Itoa(train.Time)

\* fmt.Sprintf("%s_%d", train.Route, train.Time.Unix())
TrainKey(train) == train.Route \o <<"_">> \o Itoa(Unix(train.Time))

\* trainMap after the loop: for every key the last train that has it.
TrainMap(trains) ==
    [k \in {TrainKey(trains[i]) : i \in DOMAIN trains} |->
        trains[CHOOSE i \in DOMAIN trains :
                  /\ TrainKey(trains[i]) = k
                  /\ \A j \in DOMAIN trains : TrainKey(trains[j]) = k => j <= i]]

\* The orders in which `range trainMap` can visit the keys.  Go leaves the
\* order unspecified: every order for up to MaxPermute keys, and the
\* ascending and the descending one for more.
MaxPermute == 4
MapOrders(keys) ==
    LET asc == SortStrings(keys)
        n == Cardinality(keys)
    IN  IF n <= MaxPermute THEN Arrangements(asc)
        ELSE {asc, [i \in 1..n |-> asc[n + 1 - i]]}

\* An exchange that leaves the slice as it is.
SwapNothing(s, i, j) == s

Swap(s, i, j) == [s EXCEPT ![i] = s[j], ![j] = s[i]]

\* The nested loops of sortAndLimitTrains, from (i, j) on.
RECURSIVE ExchangeSort(_, _, _)
ExchangeSort(s, i, j) ==
    IF i > Len(s) - 1 THEN s
    ELSE IF j > Len(s) THEN ExchangeSort(s, i + 1, i + 2)
    ELSE IF s[i].Time > s[j].Time THEN ExchangeSort(Swap(s, i, j), i, j + 1)
    ELSE ExchangeSort(s, i, j + 1)

MaxTrains == 10

\* The same without the limit.
sortAndLimitTrainsUncapped(trains, order) ==
    ExchangeSort([i \in DOMAIN order |-> TrainMap(trains)[order[i]]], 1, 2)

\* sortAndLimitTrains, when the map is visited in the given order of keys.
sortAndLimitTrainsIn(trains, order) ==
    LET trainMap == TrainMap(trains)
        uniqueTrains == [i \in DOMAIN order |-> trainMap[order[i]]]
        sorted == ExchangeSort(uniqueTrains, 1, 2)
    IN  IF Len(sorted) > MaxTrains THEN SubSeq(sorted, 1, MaxTrains) ELSE sorted

\* sortAndLimitTrains: what it can return.
sortAndLimitTrains(trains) ==
    IF Len(trains) = 0 THEN {trains}
    ELSE {sortAndLimitTrainsIn(trains, order) :
             order \in MapOrders(DOMAIN TrainMap(trains))}

(***************************************************************************)
(* Feed manager: the update loop                                           *)
(***************************************************************************)
NumFeeds == 2
MaxCycles == 3

Hour == 60 * Minute
updateInterval == Minute
DefaultStaticUpdateInterval == 6 * Hour

NoTrains == [North |-> <<>>, South |-> <<>>]

NewManager ==
    /\ epc = "created"
    /\ staticsLoaded = FALSE
    /\ lastStaticUpdate = ZeroTime
    /\ work = <<>>
    /\ feedIx = 1
    /\ cycles = 0
    /\ didStatic = FALSE
    /\ okFeeds = {}
    /\ cycleAlerts = <<>>
    /\ stopCh = "open"
    /\ spc = "idle"
    /\ staticUpdateInterval = DefaultStaticUpdateInterval
    /\ tickReady = FALSE

\* Store.UpdateStations from Lock to Unlock, as the other goroutines see it.
UpdateStations(m) ==
    /\ CanLock
    /\ stations' = m
    /\ lastUpdate' = now
    /\ \E idx \in IndexOutcomes(m, RouteSet(m)) : stationsByRoute' = idx
    /\ routes' = RouteList(m)
    /\ mu' = mu

\* Store.UpdateAlerts
UpdateAlerts(a) ==
    /\ CanLock
    /\ alerts' = a

\* A manager that loads the static data only to refresh it.
needsStaticUpdateRefreshOnly ==
    /\ staticUpdateInterval > 0
    /\ lastStaticUpdate # ZeroTime
    /\ now - lastStaticUpdate > staticUpdateInterval

\* The decision without the test that the interval is positive.
needsStaticUpdateUnguarded ==
    \/ ~staticsLoaded
    \/ /\ lastStaticUpdate # ZeroTime
       /\ now - lastStaticUpdate > staticUpdateInterval

needsStaticUpdate ==
    \/ ~staticsLoaded
    \/ /\ staticUpdateInterval > 0
       /\ lastStaticUpdate # ZeroTime
       /\ now - lastStaticUpdate > staticUpdateInterval

\* Manager.SetStaticUpdateInterval, called before the manager is started.
SetStaticUpdateInterval(interval) ==
    /\ epc = "created"
    /\ staticUpdateInterval' = interval
    /\ UNCHANGED <<now, storeVars, epc, staticsLoaded, lastStaticUpdate, work,
                   feedIx, cycles, didStatic, okFeeds, cycleAlerts>>
    /\ UNCHANGED clientVars
    /\ UNCHANGED stopVars
    /\ UNCHANGED tickerVars

\* Manager.Start: the goroutine begins with an update.
Start ==
    /\ epc = "created"
    /\ epc' = "update"
    /\ cycles' = 1
    /\ UNCHANGED <<now, stations, stationsByRoute, routes, alerts, lastUpdate,
                   mu, staticsLoaded, lastStaticUpdate, work, feedIx,
                   didStatic, okFeeds, cycleAlerts>>
    /\ UNCHANGED clientVars
    /\ UNCHANGED stopVars
    /\ UNCHANGED configVars
    /\ UNCHANGED tickerVars

\* update() when the static data is loaded and not due for a refresh.
SkipStatic ==
    /\ epc = "update"
    /\ ~needsStaticUpdate
    /\ epc' = "realtime"
    /\ UNCHANGED <<now, stations, stationsByRoute, routes, alerts, lastUpdate,
                   mu, staticsLoaded, lastStaticUpdate, work, feedIx, cycles,
                   didStatic, okFeeds, cycleAlerts>>
    /\ UNCHANGED clientVars
    /\ UNCHANGED stopVars
    /\ UNCHANGED configVars
    /\ UNCHANGED tickerVars

\* A failed load that ends update(), first load or refresh.
LoadStaticFailsAborts ==
    /\ epc = "update"
    /\ needsStaticUpdate
    /\ epc' = "wait"
    /\ UNCHANGED <<now, stations, stationsByRoute, routes, alerts, lastUpdate,
                   mu, staticsLoaded, lastStaticUpdate, work, feedIx, cycles,
                   didStatic, okFeeds, cycleAlerts>>
    /\ UNCHANGED clientVars
    /\ UNCHANGED stopVars
    /\ UNCHANGED configVars
    /\ UNCHANGED tickerVars

\* A failed first load that is tried again at once.
LoadStaticFailsRetries ==
    /\ epc = "update"
    /\ needsStaticUpdate
    /\ epc' = IF staticsLoaded THEN "realtime" ELSE "update"
    /\ cycles' = IF staticsLoaded \/ cycles >= MaxCycles THEN cycles
                 ELSE cycles + 1
    /\ UNCHANGED <<now, stations, stationsByRoute, routes, alerts, lastUpdate,
                   mu, staticsLoaded, lastStaticUpdate, work, feedIx,
                   didStatic, okFeeds, cycleAlerts>>
    /\ UNCHANGED clientVars
    /\ UNCHANGED stopVars
    /\ UNCHANGED configVars
    /\ UNCHANGED tickerVars

\* A failure that is recorded as a load all the same.
LoadStaticFailsStamped ==
    /\ epc = "update"
    /\ needsStaticUpdate
    /\ epc' = IF staticsLoaded THEN "realtime" ELSE "wait"
    /\ lastStaticUpdate' = now
    /\ UNCHANGED <<now, stations, stationsByRoute, routes, alerts, lastUpdate,
                   mu, staticsLoaded, work, feedIx, cycles, didStatic,
                   okFeeds, cycleAlerts>>
    /\ UNCHANGED clientVars
    /\ UNCHANGED stopVars
    /\ UNCHANGED configVars
    /\ UNCHANGED tickerVars

\* loadStaticGTFSData returns an error (download, extraction or parsing):
\* nothing was written to the store.  The first load failing ends update().
LoadStaticFails ==
    /\ epc = "update"
    /\ needsStaticUpdate
    /\ epc' = IF staticsLoaded THEN "realtime" ELSE "wait"
    /\ UNCHANGED <<now, stations, stationsByRoute, routes, alerts, lastUpdate,
                   mu, staticsLoaded, lastStaticUpdate, work, feedIx, cycles,
                   didStatic, okFeeds, cycleAlerts>>
    /\ UNCHANGED clientVars
    /\ UNCHANGED stopVars
    /\ UNCHANGED configVars
    /\ UNCHANGED tickerVars

\* What parseStops and parseRoutes make of a catalog: no trains, stamped now.
Parsed(catalog, t) ==
    [id \in DOMAIN catalog |->
        [catalog[id] EXCEPT !.Trains = NoTrains, !.LastUpdate = t]]

\* A static load that goes on before its catalog is in the store.
LoadStaticStationsDeferred(catalog) ==
    /\ epc = "update"
    /\ needsStaticUpdate
    /\ epc' = "static_alerts"
    /\ didStatic' = TRUE
    /\ UNCHANGED <<now, storeVars, staticsLoaded, lastStaticUpdate, work,
                   feedIx, cycles, okFeeds, cycleAlerts>>
    /\ UNCHANGED clientVars
    /\ UNCHANGED stopVars
    /\ UNCHANGED configVars
    /\ UNCHANGED tickerVars

\* parseGTFSData up to its UpdateStations.
LoadStaticStations(catalog) ==
    /\ epc = "update"
    /\ needsStaticUpdate
    /\ UpdateStations(Parsed(catalog, now))
    /\ epc' = "static_alerts"
    /\ didStatic' = TRUE
    /\ UNCHANGED <<now, alerts, staticsLoaded, lastStaticUpdate, work, feedIx,
                   cycles, okFeeds, cycleAlerts>>
    /\ UNCHANGED clientVars
    /\ UNCHANGED stopVars
    /\ UNCHANGED configVars
    /\ UNCHANGED tickerVars

\* parseGTFSData's UpdateAlerts and update()'s bookkeeping of the success.
LoadStaticAlerts ==
    /\ epc = "static_alerts"
    /\ UpdateAlerts(<<>>)
    /\ staticsLoaded' = TRUE
    /\ lastStaticUpdate' = now
    /\ epc' = "realtime"
    /\ UNCHANGED <<now, stations, stationsByRoute, routes, lastUpdate, mu,
                   work, feedIx, cycles, didStatic, okFeeds, cycleAlerts>>
    /\ UNCHANGED clientVars
    /\ UNCHANGED stopVars
    /\ UNCHANGED configVars
    /\ UNCHANGED tickerVars

RECURSIVE Concat(_)
Concat(ss) == IF ss = <<>> THEN <<>> ELSE Head(ss) \o Concat(Tail(ss))

\* The map updateRealTimeData builds before it reads a feed: the stations
\* the store returns for its routes, the first copy of each, without trains.
WorkingCopy ==
    LET rts == GetRoutes
        found == Concat([i \in DOMAIN rts |->
                            LET r == GetStationsByRoute(rts[i])
                            IN  IF r.err THEN <<>> ELSE r.result])
        first(id) == CHOOSE i \in DOMAIN found :
                        /\ found[i].ID = id
                        /\ \A j \in DOMAIN found : found[j].ID = id => i <= j
    IN  [id \in {found[i].ID : i \in DOMAIN found} |->
            [found[first(id)] EXCEPT !.Trains = NoTrains]]

BuildWorkingCopy ==
    /\ epc = "realtime"
    /\ work' = WorkingCopy
    /\ feedIx' = 1
    /\ epc' = "feeds"
    /\ UNCHANGED <<now, stations, stationsByRoute, routes, alerts, lastUpdate,
                   mu, staticsLoaded, lastStaticUpdate, cycles, didStatic,
                   okFeeds, cycleAlerts>>
    /\ UNCHANGED clientVars
    /\ UNCHANGED stopVars
    /\ UNCHANGED configVars
    /\ UNCHANGED tickerVars

\* processAlert's loop over alert.InformedEntity: the routes it collects.
RECURSIVE InformedRoutes(_)
InformedRoutes(es) ==
    IF es = <<>> THEN <<>>
    ELSE LET e == Head(es)
             name == IF e.RouteId = Null THEN <<>>
                     ELSE extractRouteFromID(Deref(e.RouteId))
         IN  (IF name = <<>> THEN <<>> ELSE <<name>>) \o InformedRoutes(Tail(es))

\* The same loop: the station identifiers it collects.
RECURSIVE InformedStations(_)
InformedStations(es) ==
    IF es = <<>> THEN <<>>
    ELSE LET e == Head(es)
         IN  (IF e.StopId = Null THEN <<>> ELSE <<ParentStation(Deref(e.StopId))>>)
             \o InformedStations(Tail(es))

TimePeriod(period) ==
    [Start |-> IF period.Start = Null THEN Null
               ELSE Some(TimeUnix(Deref(period.Start))),
     End |-> IF period.End = Null THEN Null
             ELSE Some(TimeUnix(Deref(period.End)))]

\* fmt.Sprintf("rt_%d", time.Now().Unix())
AlertID(t) == <<"r", "t", "_">> \o Itoa(Unix(t))

\* processAlert: the store's alert list after it, from the list before it.
processAlert(alert, currentAlerts, t) ==
    IF alert.HeaderText = Null
       \/ Len(Deref(alert.HeaderText).Translation) = 0
    THEN currentAlerts
    ELSE IF Deref(alert.HeaderText).Translation[1].Text = Null
    THEN currentAlerts
    ELSE LET d == alert.DescriptionText
             descriptionText ==
                 IF d # Null /\ Len(Deref(d).Translation) > 0
                             /\ Deref(d).Translation[1].Text # Null
                 THEN Deref(Deref(d).Translation[1].Text) ELSE <<>>
             alertModel ==
                 [ID |-> AlertID(t),
                  Header |-> Deref(Deref(alert.HeaderText).Translation[1].Text),
                  Description |-> descriptionText,
                  Routes |-> InformedRoutes(alert.InformedEntity),
                  Stations |-> InformedStations(alert.InformedEntity),
                  ActivePeriods |-> [i \in DOMAIN alert.ActivePeriod |->
                                        TimePeriod(alert.ActivePeriod[i])]]
         IN  Append(currentAlerts, alertModel)

\* processFeed's loop over feedMessage.Entity from position i on: the working
\* copy and the store's alert list after it.
RECURSIVE ProcessEntities(_, _, _, _, _)
ProcessEntities(entities, i, w, al, t) ==
    IF i > Len(entities) THEN [stations |-> w, alerts |-> al]
    ELSE LET e == entities[i]
             w2 == IF e.TripUpdate # Null
                   THEN processTripUpdate(Deref(e.TripUpdate), w, t) ELSE w
             al2 == IF e.Alert # Null
                    THEN processAlert(Deref(e.Alert), al, t) ELSE al
         IN  ProcessEntities(entities, i + 1, w2, al2, t)

\* A feed error that ends updateRealTimeData without an install.
ProcessFeedFailsAborts ==
    /\ epc = "feeds"
    /\ epc' = "wait"
    /\ UNCHANGED <<now, stations, stationsByRoute, routes, alerts, lastUpdate,
                   mu, staticsLoaded, lastStaticUpdate, work, feedIx, cycles,
                   didStatic, okFeeds, cycleAlerts>>
    /\ UNCHANGED clientVars
    /\ UNCHANGED stopVars
    /\ UNCHANGED configVars
    /\ UNCHANGED tickerVars

\* A feed error that ends the loop.
ProcessFeedFailsFatal ==
    /\ epc = "feeds"
    /\ epc' = "exited"
    /\ UNCHANGED <<now, stations, stationsByRoute, routes, alerts, lastUpdate,
                   mu, staticsLoaded, lastStaticUpdate, work, feedIx, cycles,
                   didStatic, okFeeds, cycleAlerts>>
    /\ UNCHANGED clientVars
    /\ UNCHANGED stopVars
    /\ UNCHANGED configVars
    /\ UNCHANGED tickerVars

\* processFeed returns an error: the fetch failed or the body did not decode.
ProcessFeedFails ==
    /\ epc = "feeds"
    /\ feedIx' = feedIx + 1
    /\ epc' = IF feedIx = NumFeeds THEN "install" ELSE "feeds"
    /\ UNCHANGED <<now, stations, stationsByRoute, routes, alerts, lastUpdate,
                   mu, staticsLoaded, lastStaticUpdate, work, cycles,
                   didStatic, okFeeds, cycleAlerts>>
    /\ UNCHANGED clientVars
    /\ UNCHANGED stopVars
    /\ UNCHANGED configVars
    /\ UNCHANGED tickerVars

\* processFeed on a feed that decodes to the entities given.
ProcessFeed(entities) ==
    /\ epc = "feeds"
    /\ CanLock
    /\ LET r == ProcessEntities(entities, 1, work, GetServiceAlerts, now)
       IN  /\ work' = r.stations
           /\ alerts' = r.alerts
           /\ cycleAlerts' = cycleAlerts
                  \o SubSeq(r.alerts, Len(alerts) + 1, Len(r.alerts))
    /\ okFeeds' = okFeeds \cup {feedIx}
    /\ feedIx' = feedIx + 1
    /\ epc' = IF feedIx = NumFeeds THEN "install" ELSE "feeds"
    /\ UNCHANGED <<now, stations, stationsByRoute, routes, lastUpdate, mu,
                   staticsLoaded, lastStaticUpdate, cycles, didStatic>>
    /\ UNCHANGED clientVars
    /\ UNCHANGED stopVars
    /\ UNCHANGED configVars
    /\ UNCHANGED tickerVars

\* The loop of updateRealTimeData that sorts and stamps every station of the
\* working copy (those in ids are still to do): the maps it can end with.
RECURSIVE SortedStations(_, _, _)
SortedStations(w, ids, t) ==
    IF ids = {} THEN {w}
    ELSE LET id == CHOOSE x \in ids : TRUE
         IN  UNION {{[rest EXCEPT ![id].Trains = [North |-> n, South |-> s],
                                  ![id].LastUpdate = t] :
                        n \in sortAndLimitTrains(w[id].Trains.North),
                        s \in sortAndLimitTrains(w[id].Trains.South)} :
                    rest \in SortedStations(w, ids \ {id}, t)}

\* The end of updateRealTimeData: sort, stamp, install.
InstallRealTime ==
    /\ epc = "install"
    /\ \E m \in SortedStations(work, DOMAIN work, now) : UpdateStations(m)
    /\ epc' = "wait"
    /\ UNCHANGED <<now, alerts, staticsLoaded, lastStaticUpdate, work, feedIx,
                   cycles, didStatic, okFeeds, cycleAlerts>>
    /\ UNCHANGED clientVars
    /\ UNCHANGED stopVars
    /\ UNCHANGED configVars
    /\ UNCHANGED tickerVars

\* The select of updateLoop takes the case of ticker.C, d after the previous
\* update began, and update() begins.  The goroutine that waits in the select
\* is woken by whichever channel is ready first; with stopCh closed the case
\* of ticker.C can be taken only if a tick was waiting when the select began.
Tick(d) ==
    /\ epc = "wait"
    /\ cycles < MaxCycles
    /\ stopCh = "open" \/ tickReady
    /\ tickReady' = FALSE
    /\ now' = now + d
    /\ epc' = "update"
    /\ cycles' = cycles + 1
    /\ work' = <<>>
    /\ feedIx' = 1
    /\ didStatic' = FALSE
    /\ okFeeds' = {}
    /\ cycleAlerts' = <<>>
    /\ UNCHANGED <<stations, stationsByRoute, routes, alerts, lastUpdate, mu,
                   staticsLoaded, lastStaticUpdate>>
    /\ UNCHANGED clientVars
    /\ UNCHANGED stopVars
    /\ UNCHANGED configVars

\* The ticker, which updateLoop creates after its first update(), fires while
\* an update() is running: the tick waits in ticker.C, which holds one.
TickerFires ==
    /\ epc \in {"update", "static_alerts", "realtime", "feeds", "install"}
    /\ cycles >= 2
    /\ ~tickReady
    /\ tickReady' = TRUE
    /\ UNCHANGED <<now, stations, stationsByRoute, routes, alerts, lastUpdate,
                   mu, epc, staticsLoaded, lastStaticUpdate, work, feedIx,
                   cycles, didStatic, okFeeds, cycleAlerts>>
    /\ UNCHANGED clientVars
    /\ UNCHANGED stopVars
    /\ UNCHANGED configVars

\* The engine's own variables other than those of Stop.
loopVars == <<epc, staticsLoaded, lastStaticUpdate, work, feedIx, cycles,
              didStatic, okFeeds, cycleAlerts, staticUpdateInterval,
              tickReady>>

\* A Stop that does not wait.
WaitDoneAlways == TRUE

\* The WaitGroup's counter is zero: no goroutine of the manager is running.
WaitDone == epc \in {"created", "exited"}

\* Manager.Stop up to wg.Wait().  LocalClient.Close calls it on a manager
\* that NewLocal has started.
StopBegin ==
    /\ spc = "idle"
    /\ epc # "created"
    /\ stopCh = "open"
    /\ stopCh' = "closed"
    /\ spc' = "waiting"
    /\ UNCHANGED <<now, storeVars, loopVars, clientVars>>

\* wg.Wait() returns, and Stop with it.
StopReturn ==
    /\ spc = "waiting"
    /\ WaitDone
    /\ spc' = "returned"
    /\ UNCHANGED <<now, storeVars, loopVars, clientVars, stopCh>>

\* Manager.Stop called again after it has returned: close(m.stopCh) on the
\* closed channel panics, before wg.Wait().
StopAgain ==
    /\ spc = "returned"
    /\ stopCh = "closed"
    /\ spc' = "panicked"
    /\ UNCHANGED <<now, storeVars, loopVars, clientVars, stopCh>>

\* A loop that ends wherever it is when stopCh is closed.
LoopExitAnywhere ==
    /\ epc \notin {"created", "exited"}
    /\ stopCh = "closed"
    /\ epc' = "exited"
    /\ UNCHANGED <<now, storeVars, staticsLoaded, lastStaticUpdate, work,
                   feedIx, cycles, didStatic, okFeeds, cycleAlerts,
                   clientVars, stopVars, configVars, tickerVars>>

\* The select of updateLoop takes the case of the closed stopCh: the loop
\* returns and the deferred wg.Done() runs.
LoopExit ==
    /\ epc = "wait"
    /\ stopCh = "closed"
    /\ epc' = "exited"
    /\ UNCHANGED <<now, storeVars, staticsLoaded, lastStaticUpdate, work,
                   feedIx, cycles, didStatic, okFeeds, cycleAlerts,
                   clientVars, stopVars, configVars, tickerVars>>

(***************************************************************************)
(* Callers of the store.  A caller of UpdateStations takes the lock and    *)
(* installs its map (store.go 36-40), then rebuilds the index and the      *)
(* route list from that map and releases the lock (42-66).  A reader       *)
(* keeps the result of its last query: the structs are copies, their       *)
(* slices and maps are the store's until the store installs new stations   *)
(* (held.shared).  A write through a shared slice or map writes the        *)
(* store's station of that identifier, in the map and in the index.        *)
(***************************************************************************)
NumWriters == 2
Writers == 1..NumWriters
MaxMutations == 1

NoResult ==
    [op |-> "none", arg |-> <<>>, err |-> FALSE, result |-> <<>>, shared |-> FALSE]

UpdateStationsBegin(w, m) ==
    /\ wpc[w] = "idle"
    /\ CanLock
    /\ mu' = w
    /\ stations' = m
    /\ lastUpdate' = now
    /\ warg' = [warg EXCEPT ![w] = m]
    /\ wpc' = [wpc EXCEPT ![w] = "locked"]
    /\ held' = [held EXCEPT !.shared = FALSE]
    /\ UNCHANGED <<now, stationsByRoute, routes, alerts, nmut>>
    /\ UNCHANGED engineVars

UpdateStationsEnd(w) ==
    /\ wpc[w] = "locked"
    /\ \E idx \in IndexOutcomes(warg[w], RouteSet(warg[w])) :
          stationsByRoute' = idx
    /\ routes' = RouteList(warg[w])
    /\ mu' = 0
    /\ wpc' = [wpc EXCEPT ![w] = "idle"]
    /\ warg' = [warg EXCEPT ![w] = <<>>]
    /\ UNCHANGED <<now, stations, alerts, lastUpdate, held, nmut>>
    /\ UNCHANGED engineVars

\* result[i] = *station: a copy of each struct, sharing its slices and map.
Reply(op, arg, res) ==
    /\ held' = [op |-> op, arg |-> arg, err |-> res.err, result |-> res.result,
                shared |-> TRUE]
    /\ UNCHANGED <<now, stations, stationsByRoute, routes, alerts, lastUpdate,
                   mu, wpc, warg, nmut>>
    /\ UNCHANGED engineVars

QueryByRoute(route) ==
    /\ CanRead
    /\ Reply("route", route, GetStationsByRoute(route))

QueryByIDs(ids) ==
    /\ CanRead
    /\ Reply("ids", ids, GetStationsByIDs(ids))

\* What a client can write through a station it was given: an element of
\* its route list, an element of an arrival list, an entry of its map of
\* child platforms.
Write(st, field) ==
    CASE field = "Routes" -> [st EXCEPT !.Routes[1] = <<"Z">>]
      [] field = "Trains" -> [st EXCEPT !.Trains.North[1] = Train(<<"Z">>, ZeroTime)]
      [] field = "Stops" -> [st EXCEPT !.Stops = Put(@, <<"Z">>, Loc(0, 0))]

CanWrite(st, field) ==
    CASE field = "Routes" -> st.Routes # <<>>
      [] field = "Trains" -> st.Trains.North # <<>>
      [] field = "Stops" -> TRUE

\* The write reaches every struct that shares the written slice or map.
MutateHeld(i, field) ==
    /\ nmut < MaxMutations
    /\ i \in DOMAIN held.result
    /\ CanWrite(held.result[i], field)
    /\ LET id == held.result[i].ID
       IN  /\ held' = [held EXCEPT !.result =
                          [j \in DOMAIN @ |->
                              IF @[j].ID = id THEN Write(@[j], field) ELSE @[j]]]
           /\ IF held.shared
              THEN /\ stations' =
                         [k \in DOMAIN stations |->
                             IF stations[k].ID = id
                             THEN Write(stations[k], field) ELSE stations[k]]
                   /\ stationsByRoute' =
                         [r \in DOMAIN stationsByRoute |->
                             [j \in DOMAIN stationsByRoute[r] |->
                                 IF stationsByRoute[r][j].ID = id
                                 THEN Write(stationsByRoute[r][j], field)
                                 ELSE stationsByRoute[r][j]]]
              ELSE UNCHANGED <<stations, stationsByRoute>>
    /\ nmut' = nmut + 1
    /\ UNCHANGED <<now, routes, alerts, lastUpdate, mu, wpc, warg>>
    /\ UNCHANGED engineVars

\* The station maps handed to UpdateStations.
IdA == <<"A", "1">>
IdB == <<"B", "2">>
IdC == <<"C", "3">>
IdD == <<"D", "4">>
IdZ == <<"Z", "9">>

StA == [ID |-> IdA, Name |-> <<"A", "s", "h">>, Location |-> Loc(1, 1),
        Routes |-> << <<"N">>, <<"Q">> >>,
        Trains |-> [North |-> <<Train(<<"N">>, TimeUnix(70))>>, South |-> <<>>],
        Stops |-> Put(Put(<<>>, IdA \o <<"N">>, Loc(1, 2)),
                      IdA \o <<"S">>, Loc(1, 0)),
        LastUpdate |-> TimeUnix(10)]
StB == [ID |-> IdB, Name |-> <<"B", "a", "y">>, Location |-> Loc(2, 2),
        Routes |-> << <<"N">> >>,
        Trains |-> [North |-> <<>>, South |-> <<Train(<<"N">>, TimeUnix(80))>>],
        Stops |-> <<>>, LastUpdate |-> TimeUnix(10)]
StB2 == [StB EXCEPT !.Routes = << <<"Q">> >>]
StC == [ID |-> IdC, Name |-> <<"A", "s", "h">>, Location |-> Loc(3, 3),
        Routes |-> << <<"N">>, <<"a">> >>,
        Trains |-> [North |-> <<>>, South |-> <<>>],
        Stops |-> <<>>, LastUpdate |-> TimeUnix(10)]
StD == [ID |-> IdD, Name |-> <<"C", "a", "y">>, Location |-> Loc(4, 4),
        Routes |-> <<>>,
        Trains |-> [North |-> <<>>, South |-> <<>>],
        Stops |-> <<>>, LastUpdate |-> TimeUnix(10)]

ByID(S) == [k \in {v.ID : v \in S} |-> CHOOSE v \in S : v.ID = k]

StoreInputs == {ByID({StA, StB, StD}), ByID({StA, StC}), ByID({StB2}), ByID({})}

QueryRoutes == {<<"N">>, <<"n">>, <<"Q">>, <<"a">>, <<"A">>, <<"X">>}
QueryIDs == {<<>>, <<IdA>>, <<IdZ>>, <<IdZ, IdB, IdA>>, <<IdC, IdC>>}

InitStore ==
    /\ NewStore
    /\ now = TimeUnix(20)
    /\ wpc = [w \in Writers |-> "idle"]
    /\ warg = [w \in Writers |-> <<>>]
    /\ held = NoResult
    /\ nmut = 0
    /\ NewManager

NextStore ==
    \/ \E w \in Writers, m \in StoreInputs : UpdateStationsBegin(w, m)
    \/ \E w \in Writers : UpdateStationsEnd(w)
    \/ \E route \in QueryRoutes : QueryByRoute(route)
    \/ \E ids \in QueryIDs : QueryByIDs(ids)

\* The store, its writers and readers that only read what they are given.
SpecStore == InitStore /\ [][NextStore]_vars

QueryByLocation(lat, lon, limit) ==
    /\ CanRead
    /\ \E res \in GetStationsByLocation(lat, lon, limit) :
          Reply("location", <<lat, lon, limit>>, res)

\* Stations on the grid of coordinates: some at the same distance from a
\* point of the grid, two at the same coordinate.
At(st, lat, lon) == [st EXCEPT !.Location = Loc(lat, lon)]

NearInputs ==
    {ByID({At(StA, 0, 0), At(StB, 0, 1), At(StC, 1, 0), At(StD, 0, 2)}),
     ByID({At(StA, 0, 0), At(StB, 0, 0), At(StD, -1, 2)}),
     ByID({})}

Latitudes == {0, 1}
Longitudes == 0..2
MaxLimit == 3
Limits == -1..MaxLimit

NextNear ==
    \/ \E w \in Writers, m \in NearInputs : UpdateStationsBegin(w, m)
    \/ \E w \in Writers : UpdateStationsEnd(w)
    \/ \E lat \in Latitudes, lon \in Longitudes, limit \in Limits :
          QueryByLocation(lat, lon, limit)

\* The store, its writers and readers that ask for the stations near a point.
SpecNear == InitStore /\ [][NextNear]_vars

WriteFields == {"Routes", "Trains", "Stops"}

NextAlias ==
    \/ NextStore
    \/ \E i \in 1..3, field \in WriteFields : MutateHeld(i, field)

\* The same, with a client that writes to a result it was given.
SpecAlias == InitStore /\ [][NextAlias]_vars

(***************************************************************************)
(* The manager with its feeds: what the catalog and the feeds can hold     *)
(***************************************************************************)
StaticCatalogs == {ByID({StA, StB, StD}), ByID({StB2, StC})}

\* A route identifier with a date suffix, as the feeds carry it.
Dated(route) == route \o <<"2", "0", "2", "4", "1", "2", "0", "1">>

ArrivalAt(stopID, time) ==
    [StopId |-> Some(stopID),
     Arrival |-> Some([Time |-> Some(time), Delay |-> Null])]

ArrivalIn(stopID, delay) ==
    [StopId |-> Some(stopID),
     Arrival |-> Some([Time |-> Null, Delay |-> Some(delay)])]

TripEntity(routeID, stus) ==
    [TripUpdate |-> Some([Trip |-> Some([RouteId |-> Some(routeID)]),
                          StopTimeUpdate |-> stus]),
     Alert |-> Null]

Text(s) == Some([Translation |-> <<[Text |-> Some(s)]>>])

AlertEntity(header, informed, periods) ==
    [TripUpdate |-> Null,
     Alert |-> Some([HeaderText |-> Text(header),
                     DescriptionText |-> Null,
                     InformedEntity |-> informed,
                     ActivePeriod |-> periods])]

North(id) == id \o <<"N">>
South(id) == id \o <<"S">>

\* Arrivals out of order, one of them given as a delay.
MsgArrivals(u) ==
    <<TripEntity(Dated(<<"N">>),
                 <<ArrivalAt(North(IdA), u + 120),
                   ArrivalAt(North(IdA), u + 60),
                   ArrivalIn(South(IdA), 60),
                   ArrivalAt(North(IdB), u + 90)>>)>>

\* Arrivals another feed has too, the same one by delay, and another route's
\* train at the same time.
MsgRepeats(u) ==
    <<TripEntity(Dated(<<"N">>),
                 <<ArrivalAt(North(IdA), u + 60),
                   ArrivalIn(North(IdA), 60)>>),
      TripEntity(<<"Q">>,
                 <<ArrivalAt(North(IdA), u + 60),
                   ArrivalAt(South(IdB), u + 30)>>)>>

\* More arrivals at one platform than a list holds, latest first.
BurstLen == 11
MsgBurst(u) ==
    <<TripEntity(Dated(<<"N">>),
                 [i \in 1..BurstLen |->
                     ArrivalAt(North(IdA), u + 10 * (BurstLen + 1 - i))])>>

\* A trip whose stops are listed in the order it calls at them: one left
\* half a minute ago, one a minute and a half ago, one a minute ago, one
\* still ahead.
MsgPast(u) ==
    <<TripEntity(Dated(<<"N">>),
                 <<ArrivalAt(North(IdB), u - 30),
                   ArrivalAt(North(IdA), u - 90),
                   ArrivalAt(South(IdA), u - 60),
                   ArrivalAt(South(IdB), u + 45)>>)>>

MsgAlert(u) ==
    <<AlertEntity(<<"D", "e", "l", "a", "y">>,
                  <<[RouteId |-> Some(Dated(<<"N">>)),
                     StopId |-> Some(North(IdA))]>>,
                  <<[Start |-> Some(u), End |-> Null]>>)>>

FeedMessages(t) ==
    {MsgArrivals(Unix(t)), MsgRepeats(Unix(t)), MsgBurst(Unix(t)),
     MsgPast(Unix(t)), MsgAlert(Unix(t))}

\* The ticker's period, a scheduling delay of less than a second on top of
\* it, and a pause longer than the static refresh interval.
Waits ==
    {updateInterval, updateInterval + 1, DefaultStaticUpdateInterval + Minute}

Init ==
    /\ NewStore
    /\ now = TimeUnix(1000)
    /\ wpc = [w \in Writers |-> "idle"]
    /\ warg = [w \in Writers |-> <<>>]
    /\ held = NoResult
    /\ nmut = 0
    /\ NewManager

Next ==
    \/ Start
    \/ SkipStatic
    \/ LoadStaticFails
    \/ \E catalog \in StaticCatalogs : LoadStaticStations(catalog)
    \/ LoadStaticAlerts
    \/ BuildWorkingCopy
    \/ ProcessFeedFails
    \/ \E entities \in FeedMessages(now) : ProcessFeed(entities)
    \/ InstallRealTime
    \/ \E d \in Waits : Tick(d)

\* The feed manager and the store it refreshes.
Spec == Init /\ [][Next]_vars

\* What the catalog and the feeds hold where the life of the loop matters.
LifeCatalogs == {ByID({StA, StB, StD})}
LifeMessages(t) == {MsgArrivals(Unix(t)), MsgAlert(Unix(t))}
LifeWaits == {updateInterval}

NextLife ==
    \/ Start
    \/ SkipStatic
    \/ LoadStaticFails
    \/ \E catalog \in LifeCatalogs : LoadStaticStations(catalog)
    \/ LoadStaticAlerts
    \/ BuildWorkingCopy
    \/ ProcessFeedFails
    \/ \E entities \in LifeMessages(now) : ProcessFeed(entities)
    \/ InstallRealTime
    \/ \E d \in LifeWaits : Tick(d)
    \/ TickerFires
    \/ StopBegin
    \/ LoopExit
    \/ StopReturn

\* The steps of an update() and of the goroutine around it.
UpdateStep ==
    \/ Start
    \/ SkipStatic
    \/ LoadStaticFails
    \/ \E catalog \in LifeCatalogs : LoadStaticStations(catalog)
    \/ LoadStaticAlerts
    \/ BuildWorkingCopy
    \/ ProcessFeedFails
    \/ \E entities \in LifeMessages(now) : ProcessFeed(entities)
    \/ InstallRealTime

\* The goroutine runs on: every request has a timeout and no step of an
\* update() blocks.
Fairness == WF_vars(UpdateStep)

\* The feed manager from Start to the return of Stop.
SpecLife == Init /\ [][NextLife]_vars

\* The same, with a scheduler that lets every goroutine go on.
SpecLifeFair == SpecLife /\ Fairness

NextClose == NextLife \/ StopAgain

\* The feed manager with a caller that calls Stop, or Close, a second time.
SpecClose == Init /\ [][NextClose]_vars

\* The refresh intervals a manager is given: negative, none, two hours; and
\* the default when SetStaticUpdateInterval is not called.
Intervals == {0 - Hour, 0, 2 * Hour}

\* A tick after a minute, after two hours to the instant, just after two
\* hours, and after more than six hours.
RefreshWaits ==
    {updateInterval, 2 * Hour, 2 * Hour + 1, DefaultStaticUpdateInterval + Minute}

RefreshMessages(t) == {MsgAlert(Unix(t))}

NextRefresh ==
    \/ \E interval \in Intervals : SetStaticUpdateInterval(interval)
    \/ Start
    \/ SkipStatic
    \/ LoadStaticFails
    \/ \E catalog \in LifeCatalogs : LoadStaticStations(catalog)
    \/ LoadStaticAlerts
    \/ BuildWorkingCopy
    \/ ProcessFeedFails
    \/ \E entities \in RefreshMessages(now) : ProcessFeed(entities)
    \/ InstallRealTime
    \/ \E d \in RefreshWaits : Tick(d)

\* The feed manager with a configured refresh interval.
SpecRefresh == Init /\ [][NextRefresh]_vars

(***************************************************************************)
(* Readers of the two timestamps, beside the update loop                   *)
(***************************************************************************)
\* Store.GetLastUpdate: the read is made with the read lock held.
ReadLastUpdate ==
    /\ held.op # "readingStatic"
    /\ CanRead
    /\ held' = [NoResult EXCEPT !.op = "lastUpdate", !.result = GetLastUpdate]
    /\ UNCHANGED <<now, storeVars, wpc, warg, nmut>>
    /\ UNCHANGED engineVars

\* Manager.GetLastStaticUpdate begins to copy the time.Time, a struct of
\* several words; it takes no lock.  The value at this moment is kept in arg.
ReadLastStaticBegin ==
    /\ held.op # "readingStatic"
    /\ held' = [NoResult EXCEPT !.op = "readingStatic",
                                !.arg = lastStaticUpdate]
    /\ UNCHANGED <<now, storeVars, wpc, warg, nmut>>
    /\ UNCHANGED engineVars

\* What a copy can hold that began with the value old and ended with the
\* value new in the field: either of them, or words of both.
RacyCopy(old, new) ==
    {old, new,
     Unix(old) * Second + (new % Second),
     Unix(new) * Second + (old % Second)}

\* GetLastStaticUpdate returns its copy.
ReadLastStaticEnd ==
    /\ held.op = "readingStatic"
    /\ \E t \in RacyCopy(held.arg, lastStaticUpdate) :
          held' = [NoResult EXCEPT !.op = "lastStatic", !.result = t]
    /\ UNCHANGED <<now, storeVars, wpc, warg, nmut>>
    /\ UNCHANGED engineVars

StampMessages(t) == {MsgAlert(Unix(t))}
StampWaits == {updateInterval + 1, DefaultStaticUpdateInterval + Minute}

NextStamp ==
    \/ Start
    \/ SkipStatic
    \/ LoadStaticFails
    \/ \E catalog \in LifeCatalogs : LoadStaticStations(catalog)
    \/ LoadStaticAlerts
    \/ BuildWorkingCopy
    \/ ProcessFeedFails
    \/ \E entities \in StampMessages(now) : ProcessFeed(entities)
    \/ InstallRealTime
    \/ \E d \in StampWaits : Tick(d)
    \/ ReadLastUpdate
    \/ ReadLastStaticBegin
    \/ ReadLastStaticEnd

\* The update loop and a caller that reads the timestamps.
SpecStamp == Init /\ [][NextStamp]_vars

(***************************************************************************)
(* Route identifiers: extractRouteFromID on its own                        *)
(***************************************************************************)
\* The strings over the alphabet of length n.
RECURSIVE StringsOfLen(_, _)
StringsOfLen(alphabet, n) ==
    IF n = 0 THEN {<<>>}
    ELSE {<<c>> \o t : c \in alphabet, t \in StringsOfLen(alphabet, n - 1)}

MaxPrefix == 3

\* Identifiers: a short prefix of letters, digits and underscores, followed
\* by nothing, by a date, or by a shorter run of digits.
RouteIDs ==
    {pre \o suf :
        pre \in UNION {StringsOfLen({"A", "1", "_"}, n) : n \in 0..MaxPrefix},
        suf \in {<<>>, <<"2", "0", "2", "4", "1", "2", "0", "1">>,
                 <<"2", "0", "2", "4">>, <<"2", "0", "2", "4", "S">>,
                 <<"2", "0", "2", "4", "2", "0", "2", "4", "1", "2", "0", "1">>}}

InitRoute ==
    /\ NewStore
    /\ now = TimeUnix(20)
    /\ wpc = [w \in Writers |-> "idle"]
    /\ warg = [w \in Writers |-> <<>>]
    /\ \E id \in RouteIDs : held = [NoResult EXCEPT !.arg = id]
    /\ nmut = 0
    /\ NewManager

\* A call of extractRouteFromID on the identifier.
ExtractRoute ==
    /\ held.op = "none"
    /\ held' = [held EXCEPT !.op = "extract",
                            !.result = extractRouteFromID(held.arg)]
    /\ UNCHANGED <<now, stations, stationsByRoute, routes, alerts, lastUpdate,
                   mu, wpc, warg, nmut>>
    /\ UNCHANGED engineVars

\* A call of processAlert on an alert about the route of that identifier.
AlertAbout ==
    /\ held.op = "extract"
    /\ CanLock
    /\ alerts = <<>>
    /\ alerts' = processAlert(
                     Deref(AlertEntity(<<"D", "e", "l", "a", "y">>,
                               <<[RouteId |-> Some(held.arg), StopId |-> Null]>>,
                               <<>>).Alert),
                     GetServiceAlerts, now)
    /\ UNCHANGED <<now, stations, stationsByRoute, routes, lastUpdate, mu,
                   wpc, warg, held, nmut>>
    /\ UNCHANGED engineVars

\* A second call of extractRouteFromID, on the result of the first.
ExtractAgain ==
    /\ held.op = "extract"
    /\ held' = [held EXCEPT !.op = "extractAgain",
                            !.arg = held.result,
                            !.result = extractRouteFromID(held.result)]
    /\ UNCHANGED <<now, stations, stationsByRoute, routes, alerts, lastUpdate,
                   mu, wpc, warg, nmut>>
    /\ UNCHANGED engineVars

NextRoute == ExtractRoute \/ AlertAbout \/ ExtractAgain

\* extractRouteFromID and processAlert on every identifier.
SpecRoute == InitRoute /\ [][NextRoute]_vars

(***************************************************************************)
(* Trip updates: processTripUpdate on its own                              *)
(***************************************************************************)
\* The map of stations handed to processTripUpdate: two stops, no trains.
TripStations ==
    [id \in {IdA, IdB} |-> [ByID({StA, StB})[id] EXCEPT !.Trains = NoTrains]]

\* The time of the call: on a second, and between two seconds.
TripTimes == {TimeUnix(1000), TimeUnix(1000) + 1}

\* Stop-time updates at about the time u: two that are in order, one at a
\* stop the map does not have, one a minute and a half old, one a minute
\* old, one without a direction, one without time data, one without an
\* arrival.
StopTimeKinds(u) ==
    {ArrivalAt(North(IdA), u + 60),
     ArrivalIn(South(IdB), 30),
     ArrivalAt(North(IdZ), u + 10),
     ArrivalAt(South(IdA), u - 90),
     ArrivalAt(South(IdA), u - 60),
     ArrivalAt(IdA, u + 20),
     [StopId |-> Some(North(IdB)),
      Arrival |-> Some([Time |-> Null, Delay |-> Null])],
     [StopId |-> Some(South(IdB)), Arrival |-> Null]}

MaxStopTimes == 3

\* Route identifiers of trips: dated, plain, and one that is all digits.
TripRouteIDs == {Dated(<<"N">>), <<"Q">>, <<"1", "2", "0", "2", "4">>}

TripUpdates(u) ==
    {Deref(TripEntity(routeID, stus).TripUpdate) :
        routeID \in TripRouteIDs,
        stus \in UNION {StringsOfLen(StopTimeKinds(u), n) :
                           n \in 1..MaxStopTimes}}

InitTrip ==
    /\ NewStore
    /\ now \in TripTimes
    /\ wpc = [w \in Writers |-> "idle"]
    /\ warg = [w \in Writers |-> <<>>]
    /\ \E tu \in TripUpdates(1000) : held = [NoResult EXCEPT !.arg = tu]
    /\ nmut = 0
    /\ NewManager

\* A call of processTripUpdate on the trip update, with the map of stations.
ProcessTrip ==
    /\ held.op = "none"
    /\ held' = [held EXCEPT
                   !.op = "trip",
                   !.result = processTripUpdate(held.arg, TripStations, now)]
    /\ UNCHANGED <<now, storeVars, wpc, warg, nmut>>
    /\ UNCHANGED engineVars

NextTrip == ProcessTrip

\* processTripUpdate on every trip update.
SpecTrip == InitTrip /\ [][NextTrip]_vars

(***************************************************************************)
(* Properties of the merge cycle                                           *)
(***************************************************************************)
Directions == {"North", "South"}

NoRepeats(s) == \A i, j \in DOMAIN s : i # j => s[i] # s[j]

\* An update() that got as far as updateRealTimeData has returned.
CycleDone == epc = "wait" /\ staticsLoaded

\* C1: once the static catalog is loaded, a cycle in which every feed fails
\* to be fetched or decoded leaves every stop's North and South arrival
\* lists as they were installed before the cycle.  (Stated for the cycles
\* that do not reload the catalog, whose install is the only store write.)
C1_StaleDataKept ==
    [][(epc = "install" /\ epc' = "wait" /\ okFeeds = {} /\ ~didStatic)
       => \A id \in DOMAIN stations :
             /\ id \in DOMAIN stations'
             /\ stations'[id].Trains = stations[id].Trains]_vars

\* C2: after a merge cycle the advisory list is exactly the advisories that
\* cycle decoded; those of earlier cycles are gone.
C2_AdvisoriesReplaced == CycleDone => GetServiceAlerts = cycleAlerts

\* C3: every arrival list in the store, of every stop and direction, has at
\* most ten entries.
C3_AtMostTen ==
    \A id \in DOMAIN stations, d \in Directions :
        Len(stations[id].Trains[d]) <= MaxTrains

\* More than ten different arrivals were decoded for a platform, and ten are
\* installed.
C3_Witness ==
    /\ CycleDone
    /\ \E id \in DOMAIN stations :
          /\ Cardinality(Range(work[id].Trains.North)) > MaxTrains
          /\ Len(stations[id].Trains.North) = MaxTrains

Ascending(trains) ==
    \A i, j \in DOMAIN trains : i < j => trains[i].Time <= trains[j].Time

\* C4: every arrival list in the store is in non-decreasing order of the
\* arrival instant, whatever the order of decoding.
C4_SortedByTime ==
    \A id \in DOMAIN stations, d \in Directions :
        Ascending(stations[id].Trains[d])

\* Both feeds were decoded, a platform's arrivals were decoded out of order,
\* and three or more of them are installed.
C4_Witness ==
    /\ CycleDone
    /\ okFeeds = 1..NumFeeds
    /\ \E id \in DOMAIN stations :
          /\ ~Ascending(work[id].Trains.North)
          /\ Len(stations[id].Trains.North) >= 3

\* The arrivals decoded for a platform, and what is installed for it.
Decoded(id, d) == work[id].Trains[d]
Installed(id, d) == stations[id].Trains[d]

SameSecond(a, b) == a.Route = b.Route /\ Unix(a.Time) = Unix(b.Time)

\* The last decoded arrival of every route and second.
LastOfSecond(trains) ==
    {trains[i] : i \in {i \in DOMAIN trains :
                           \A j \in DOMAIN trains :
                               SameSecond(trains[i], trains[j]) => j <= i}}

\* C5 as stated: after a merge cycle no two installed entries have the same
\* route and instant, and decoded arrivals that differ in route or instant
\* are all installed, up to the cap.
C5_AsStated ==
    CycleDone =>
        \A id \in DOMAIN stations, d \in Directions :
            /\ NoRepeats(Installed(id, d))
            /\ Cardinality(Range(Decoded(id, d))) <= MaxTrains
               => Range(Decoded(id, d)) \subseteq Range(Installed(id, d))

\* C5: after a merge cycle no two installed entries have the same route and
\* the same second of the instant: of the decoded arrivals with the same
\* route and second the last decoded one is installed, and all of these are
\* installed, up to the cap.
C5_OnePerSecond ==
    CycleDone =>
        \A id \in DOMAIN stations, d \in Directions :
            LET kept == LastOfSecond(Decoded(id, d))
                inst == Installed(id, d)
            IN  /\ \A i, j \in DOMAIN inst :
                      SameSecond(inst[i], inst[j]) => i = j
                /\ Range(inst) \subseteq kept
                /\ Cardinality(kept) <= MaxTrains => Range(inst) = kept
                /\ Cardinality(kept) > MaxTrains => Len(inst) = MaxTrains

\* A platform for which the same arrival was decoded from both feeds, two
\* arrivals of a route in the same second at different instants, and two
\* routes' arrivals at the same instant.
C5_Witness ==
    /\ CycleDone
    /\ okFeeds = 1..NumFeeds
    /\ \E id \in DOMAIN stations :
          LET dec == Decoded(id, "North")
              inst == Installed(id, "North")
          IN  /\ \E i, j \in DOMAIN dec : i # j /\ dec[i] = dec[j]
              /\ \E i, j \in DOMAIN dec :
                    SameSecond(dec[i], dec[j]) /\ dec[i].Time # dec[j].Time
              /\ \E i, j \in DOMAIN inst :
                    /\ inst[i].Route # inst[j].Route
                    /\ inst[i].Time = inst[j].Time

\* The instant processTripUpdate computes for a stop-time update at time t.
ArrivalInstant(stu, t) ==
    LET arr == Deref(stu.Arrival)
    IN  IF arr.Time # Null THEN TimeUnix(Deref(arr.Time))
        ELSE t + Deref(arr.Delay) * Second

\* The stop-time updates of the trips of a feed, each with its route code.
StopEvents(entities) ==
    UNION {{[route |-> extractRouteFromID(
                           Deref(Deref(Deref(entities[i].TripUpdate).Trip).RouteId)),
             stu |-> Deref(entities[i].TripUpdate).StopTimeUpdate[k]] :
               k \in DOMAIN Deref(entities[i].TripUpdate).StopTimeUpdate} :
           i \in {i \in DOMAIN entities : entities[i].TripUpdate # Null}}

\* C15: of the arrivals a feed reports for a known stop with a direction,
\* those more than 60 seconds before the processing time are not put into
\* the snapshot and those at most 60 seconds in the past, or in the future,
\* are.
C15_RecentArrivalsKept ==
    [][\A entities \in FeedMessages(now) :
          ProcessFeed(entities) =>
              \A ev \in StopEvents(entities) :
                  LET stop == Deref(ev.stu.StopId)
                      at == ArrivalInstant(ev.stu, now)
                  IN  (ParentStation(stop) \in DOMAIN work /\ HasDirection(stop))
                      => ((now - at <= Minute) <=>
                             Train(ev.route, at) \in
                                 Range(work'[ParentStation(stop)]
                                           .Trains[Direction(stop)]))]_vars

StoreEmpty ==
    /\ stations = <<>>
    /\ \A route \in QueryRoutes : GetStationsByRoute(route).err

\* C16: while no static load has succeeded the store is empty and every
\* query by route fails with NotFound; the loop does not end at the failure
\* but waits for the tick, and the update of every tick begins with another
\* attempt to load the static data.
C16_RetryUntilLoaded ==
    /\ [](~staticsLoaded /\ ~didStatic => StoreEmpty)
    /\ [][~staticsLoaded /\ epc' # epc =>
             /\ epc = "update" => epc' \in {"wait", "static_alerts"}
             /\ epc = "wait" => epc' = "update" \/ stopCh = "closed"]_vars

\* The static load has failed in three updates, the store is empty and the
\* loop is waiting for the next tick.
C16_Witness ==
    /\ cycles = 3
    /\ ~staticsLoaded
    /\ epc = "wait"
    /\ stopCh = "open"
    /\ StoreEmpty

\* The catalog data of the store: the stops with their names, coordinates,
\* routes and child platforms.
Catalog ==
    [id \in DOMAIN stations |->
        [Name |-> stations[id].Name, Location |-> stations[id].Location,
         Routes |-> stations[id].Routes, Stops |-> stations[id].Stops]]

\* GetLastStaticUpdate
GetLastStaticUpdate == lastStaticUpdate

\* The static data is loaded and due for a refresh that this update() has
\* not brought about.
RefreshMissing == staticsLoaded /\ needsStaticUpdate

\* C17: from a refresh of the static data that fails to the end of that
\* update, the catalog data and the route list that the queries return stay
\* what they were, and so does the time of the last static update.
C17_FailedRefreshKeepsCatalog ==
    [][(RefreshMissing /\ ~didStatic') =>
          /\ Catalog' = Catalog
          /\ GetRoutes' = GetRoutes
          /\ GetLastStaticUpdate' = GetLastStaticUpdate]_vars

\* An update whose refresh failed has merged a feed and installed.
C17_Witness ==
    /\ RefreshMissing
    /\ ~didStatic
    /\ epc = "wait"
    /\ okFeeds # {}
    /\ stations # <<>>

\* C18: Stop returns only when the loop has exited, and from then on the
\* loop stays exited: no update runs and the store is not written.
C18_StopWaitsForLoop ==
    /\ [](spc = "returned" => epc = "exited")
    /\ [][spc = "returned" => UNCHANGED <<storeVars, loopVars>>]_vars

\* Stop has returned from a manager that had loaded the catalog and merged
\* feeds in two updates or more.
C18_Witness ==
    /\ spc = "returned"
    /\ epc = "exited"
    /\ cycles >= 2
    /\ staticsLoaded
    /\ okFeeds # {}

\* The index and the route list are what an install of the map m can
\* have left.
InstalledFrom(m) ==
    /\ stationsByRoute \in IndexOutcomes(m, RouteSet(m))
    /\ routes = RouteList(m)

\* An update() is between its first and its last step.
InFlight == epc \in {"update", "static_alerts", "realtime", "feeds", "install"}

\* The store holds what the last update() that got to its merge installed:
\* every stop of its working copy, with the arrival lists sorted and cut.
SnapshotWhole ==
    staticsLoaded =>
        /\ DOMAIN stations = DOMAIN work
        /\ \A id \in DOMAIN work, d \in Directions :
              stations[id].Trains[d] \in sortAndLimitTrains(work[id].Trains[d])
        /\ InstalledFrom(stations)

\* C19: a Stop during an update does not abort it: the update goes on to its
\* end, the loop exits only between two updates, Stop returns only then,
\* and the store the loop leaves behind holds a whole snapshot.
C19_StopLetsCycleFinish ==
    /\ [][epc' = "exited" => epc \in {"wait", "exited"}]_vars
    /\ [](epc = "exited" => SnapshotWhole)
    /\ [](spc = "returned" => ~InFlight)
    /\ (stopCh = "closed" /\ InFlight) ~> (epc = "wait" /\ stopCh = "closed")

\* Stop was called while the feeds of an update were being read, that update
\* installed its arrivals, the loop exited and Stop returned.
C19_Witness ==
    /\ spc = "returned"
    /\ staticsLoaded
    /\ okFeeds # {}
    /\ \E id \in DOMAIN stations : stations[id].Trains.North # <<>>
    /\ cycles = 1

\* C20: the loop ends only when Stop has been called: whatever failed, the
\* goroutine is in an update or waiting for the tick, the tick can come, and
\* what follows the wait is the next update.
C20_OnlyStopEndsLoop ==
    /\ [](epc = "exited" => stopCh = "closed")
    /\ []((epc = "wait" /\ stopCh = "open" /\ cycles < MaxCycles) =>
             ENABLED (\E d \in LifeWaits : Tick(d)))
    /\ [][(epc = "wait" /\ stopCh = "open" /\ epc' # epc)
             => epc' = "update"]_vars

\* The first static load failed, a later one succeeded, every feed of the
\* third update failed, and the loop is waiting for the next tick.
C20_Witness ==
    /\ cycles = 3
    /\ staticsLoaded
    /\ lastStaticUpdate > TimeUnix(1000)
    /\ okFeeds = {}
    /\ epc = "wait"
    /\ stopCh = "open"

\* s is the beginning of t.
IsPrefix(s, t) == Len(s) <= Len(t) /\ SubSeq(t, 1, Len(s)) = s

\* C21: a feed that fails takes nothing away from the other feeds of the
\* cycle: while the feeds are read the arrival lists of the working copy only
\* grow, whichever feed failed, and what the cycle installs for every stop
\* and direction is made of all the arrivals of the working copy.
C21_FeedFailureIsolated ==
    /\ [][epc = "feeds" =>
             \A id \in DOMAIN work :
                 /\ id \in DOMAIN work'
                 /\ \A d \in Directions :
                       IsPrefix(work[id].Trains[d], work'[id].Trains[d])]_vars
    /\ [](CycleDone =>
             \A id \in DOMAIN work :
                 /\ id \in DOMAIN stations
                 /\ \A d \in Directions :
                       Installed(id, d) \in sortAndLimitTrains(Decoded(id, d)))

\* The first feed gave arrivals, the second failed, and the arrivals of the
\* first are installed.
C21_Witness ==
    /\ CycleDone
    /\ okFeeds = {1}
    /\ \E id \in DOMAIN work :
          /\ Decoded(id, "North") # <<>>
          /\ Installed(id, "North") # <<>>

\* update() can go on to a static load; it can go on without one.
LoadAttempted ==
    /\ ENABLED LoadStaticFails
    /\ ENABLED (\E catalog \in LifeCatalogs : LoadStaticStations(catalog))
    /\ ~ENABLED SkipStatic
LoadSkipped ==
    /\ ENABLED SkipStatic
    /\ ~ENABLED LoadStaticFails
    /\ ~ENABLED (\E catalog \in LifeCatalogs : LoadStaticStations(catalog))

\* The refresh is due as stated: the interval is not zero and has passed.
DueAsStated ==
    \/ ~staticsLoaded
    \/ /\ staticUpdateInterval # 0
       /\ now - GetLastStaticUpdate >= staticUpdateInterval

\* The refresh is due: the interval is positive and more than it has passed.
Due ==
    \/ ~staticsLoaded
    \/ /\ staticUpdateInterval > 0
       /\ now - GetLastStaticUpdate > staticUpdateInterval

\* C22 as stated: at the start of an update a static load is attempted if
\* and only if no load has succeeded yet, or the interval is not zero and
\* has elapsed since the last successful load; the interval is six hours
\* unless it is set, and the time of the last static update is zero before
\* a load has succeeded.
C22_AsStated ==
    /\ staticUpdateInterval = 6 * Hour
    /\ [](~staticsLoaded => GetLastStaticUpdate = ZeroTime)
    /\ [](epc = "update" =>
             IF DueAsStated THEN LoadAttempted ELSE LoadSkipped)

\* C22: at the start of an update a static load is attempted if and only if
\* no load has succeeded yet, or the interval is positive and more than the
\* interval has passed since the last successful load: with an interval of
\* zero, or a negative one, the data is loaded once.  The interval is six
\* hours unless it is set, and the time of the last static update is zero
\* before a load has succeeded.
C22_RefreshWhenDue ==
    /\ staticUpdateInterval = 6 * Hour
    /\ [](~staticsLoaded => GetLastStaticUpdate = ZeroTime)
    /\ [](epc = "update" => IF Due THEN LoadAttempted ELSE LoadSkipped)
    /\ []((epc = "update" /\ staticsLoaded /\ staticUpdateInterval = 0)
             => LoadSkipped)

\* A manager set to two hours is installing the catalog of a refresh, in its
\* second update or later.
C22_Witness ==
    /\ staticUpdateInterval = 2 * Hour
    /\ staticsLoaded
    /\ cycles >= 2
    /\ epc = "static_alerts"
    /\ now - GetLastStaticUpdate > staticUpdateInterval

\* C23: the first update begins when the manager is started, at that very
\* time; every other update begins from the wait at a tick, a period or more
\* after the update before it began; an update that failed goes to the wait
\* like any other.
C23_FirstNowThenTicks ==
    /\ [][epc = "created" /\ epc' # epc =>
             epc' = "update" /\ cycles' = 1 /\ now' = now]_vars
    /\ [][cycles >= 1 /\ cycles' # cycles =>
             /\ epc = "wait" /\ epc' = "update"
             /\ cycles' = cycles + 1
             /\ now' >= now + updateInterval]_vars
    /\ [][epc = "update" /\ ~staticsLoaded /\ epc' # epc =>
             epc' \in {"wait", "static_alerts"} /\ now' = now]_vars

\* The first update failed to load the static data, and the second update
\* begins one period after it.
C23_Witness ==
    /\ cycles = 2
    /\ ~staticsLoaded
    /\ epc = "update"
    /\ now = TimeUnix(1000) + updateInterval

\* NewLocal (pkg/mta/local.go): it makes the store and the manager, calls
\* Start and returns the client; the error it returns is nil.
NewLocalReturned == epc # "created"
NewLocalError == Null

\* The first update() has returned the error of the first static load.
InitialLoadFailed == cycles = 1 /\ epc = "wait" /\ ~staticsLoaded

\* C24: when the first load of the static data fails, the caller of NewLocal
\* has an error and not a client to use.
C24_StartupFailureReported ==
    (NewLocalReturned /\ InitialLoadFailed) => NewLocalError # Null

\* An update() ends.
UpdateReturns == epc # "wait" /\ epc' = "wait"

\* C25 as stated: no update ends without its real-time part, the install of
\* the working copy being the last step of it.
C25_AsStated == [][UpdateReturns => epc = "install"]_vars

\* C25: an update goes on to the real-time part whether the static data was
\* not due, was loaded, or failed to be refreshed; the one update that ends
\* without it is the one whose load failed while no load had succeeded, and
\* it leaves the store as it was.
C25_RealTimeUnlessFirstLoadFails ==
    /\ [][UpdateReturns =>
             \/ epc = "install"
             \/ /\ epc = "update" /\ ~staticsLoaded /\ ~staticsLoaded'
                /\ UNCHANGED storeVars]_vars
    /\ [][epc = "update" /\ staticsLoaded /\ epc' # epc =>
             epc' \in {"realtime", "static_alerts"}]_vars
    /\ [][epc = "static_alerts" /\ epc' # epc => epc' = "realtime"]_vars
    /\ [][epc = "realtime" /\ epc' # epc =>
             epc' = "feeds" /\ work' = WorkingCopy]_vars

\* The refresh of the static data has failed in this update, and the update
\* is reading the feeds.
C25_Witness ==
    /\ RefreshMissing
    /\ ~didStatic
    /\ epc = "feeds"
    /\ work # <<>>

\* C29: the working copy of a real-time refresh has every stop of the store,
\* each as the store has it but with empty North and South lists, and the
\* install of the working copy leaves the store with the stops it had.
C29_WorkingCopyComplete ==
    /\ [][epc = "realtime" /\ epc' = "feeds" =>
             /\ DOMAIN work' = DOMAIN stations
             /\ \A id \in DOMAIN work' :
                   /\ id \in DOMAIN stations
                   /\ work'[id] = [stations[id] EXCEPT !.Trains = NoTrains]]_vars
    /\ [][epc = "install" /\ epc' = "wait" =>
             DOMAIN stations' = DOMAIN stations]_vars

\* C30: when the real-time part of an update that loaded the static data
\* begins, the load is complete: the store holds the new catalog with its
\* index and no alerts, and the load is recorded; the working copy is then
\* made of the stops of that store.  Nothing goes from the static load to
\* the feeds but by way of this.
C30_StaticBeforeRealTime ==
    /\ []((epc = "realtime" /\ didStatic) =>
             /\ staticsLoaded
             /\ GetLastStaticUpdate = now
             /\ \E catalog \in StaticCatalogs : stations = Parsed(catalog, now)
             /\ InstalledFrom(stations)
             /\ GetServiceAlerts = <<>>)
    /\ [][(epc = "realtime" /\ epc' # epc) =>
             /\ epc' = "feeds"
             /\ \A id \in DOMAIN work' :
                   /\ id \in DOMAIN stations
                   /\ work'[id] = [stations[id] EXCEPT !.Trains = NoTrains]]_vars
    /\ [][(epc \in {"update", "static_alerts"} /\ epc' # epc) =>
             epc' \in {"static_alerts", "realtime", "wait"}]_vars
    /\ [][epc' = "feeds" => epc \in {"realtime", "feeds"}]_vars

\* An update after the first has loaded the static data, and its working
\* copy has stops of the catalog just installed, stamped with the time of
\* this load.
C30_Witness ==
    /\ cycles >= 2
    /\ didStatic
    /\ epc = "feeds"
    /\ work # <<>>
    /\ \A id \in DOMAIN work : work[id].LastUpdate = now
    /\ lastStaticUpdate = now

\* C31: once Stop has closed the channel no update begins; the loop goes
\* from the update it is in, if any, to its exit.
C31_NoCycleAfterStop ==
    [][stopCh = "closed" => cycles' = cycles /\ epc' # "update"]_vars

\* C32: the two timestamps are read under a lock that their writer takes:
\* GetLastUpdate can read only when no writer holds the store's lock, the
\* time of the last static update is not written while a caller copies it,
\* and what the caller gets is the value the field has.
C32_TimestampsLockGuarded ==
    /\ [](ENABLED ReadLastUpdate => CanRead)
    /\ [][lastStaticUpdate' # lastStaticUpdate =>
             held.op # "readingStatic"]_vars
    /\ [][held'.op = "lastStatic" /\ held.op = "readingStatic" =>
             held'.result = lastStaticUpdate]_vars

\* C33: no two alerts of the list GetServiceAlerts returns have the same
\* identifier.
C33_AlertIDsUnique ==
    \A i, j \in DOMAIN GetServiceAlerts :
        i # j => GetServiceAlerts[i].ID # GetServiceAlerts[j].ID

\* A feed of this update() has added alerts to the store's list already.
AlertsWritten == cycleAlerts # <<>>

\* C34: the list GetServiceAlerts returns changes at most once in an update,
\* from the list of the update before to the whole list of this one: a
\* reader beside the update never gets an emptied list or a part of it.
C34_AlertsInstalledWhole ==
    [][GetServiceAlerts' # GetServiceAlerts => ~AlertsWritten]_vars

\* C35: GetLastUpdate is the time of the last real-time merge: it changes
\* only when updateRealTimeData installs its working copy, so it is zero
\* before the first such install and a static load leaves it alone, and it
\* never decreases.
C35_LastUpdateIsRealTime ==
    [][/\ GetLastUpdate' # GetLastUpdate => epc = "install"
       /\ GetLastUpdate' >= GetLastUpdate]_vars

\* What a real-time merge may not change of a station.
Identity(st) ==
    [ID |-> st.ID, Name |-> st.Name, Location |-> st.Location,
     Routes |-> st.Routes, Stops |-> st.Stops]

\* The identifiers of the stations GetStationsByRoute returns, in its order.
RouteOrder(idx, r) == [i \in DOMAIN idx[r] |-> idx[r][i].ID]

\* C38: extractRouteFromID is idempotent: applied to a route name it has
\* returned, it returns that name.
C38_ExtractIdempotent ==
    held.op = "extractAgain" => held.result = held.arg

\* C40: a call of Stop after Stop has returned returns as well, and leaves
\* the manager stopped: stopCh closed, no goroutine of the manager running.
C40_StopRepeatable ==
    [][spc = "returned" /\ spc' # "returned" =>
          spc' = "returnedAgain" /\ stopCh' = "closed" /\ WaitDone']_vars

\* C37: whenever a reader can enter the store, GetStationsByRoute finds every
\* route GetRoutes lists, and returns stations for it, whatever the case of
\* the letters of the routes the installed stations carry.
C37_ListedRoutesFound ==
    CanRead =>
        \A i \in DOMAIN GetRoutes :
            /\ ~GetStationsByRoute(GetRoutes[i]).err
            /\ GetStationsByRoute(GetRoutes[i]).result # <<>>

\* The stations of the store are after the install what they were before it,
\* their trains and LastUpdate apart.
StationsKept ==
    \A id \in DOMAIN stations :
        /\ id \in DOMAIN stations'
        /\ Identity(stations'[id]) = Identity(stations[id])

\* GetRoutes returns after the install what it returned before it.
RoutesKept == GetRoutes' = GetRoutes

\* GetStationsByRoute returns the stations in the same order after the
\* install as before it.
RouteOrderKept ==
    /\ DOMAIN stationsByRoute' = DOMAIN stationsByRoute
    /\ \A r \in DOMAIN stationsByRoute :
          RouteOrder(stationsByRoute', r) = RouteOrder(stationsByRoute, r)

\* C36: the install of a real-time merge changes only trains and LastUpdate:
\* every station keeps its ID, name, location, routes and stops, and
\* GetRoutes and the order of GetStationsByRoute stay as they were.
C36_RealTimeFrame ==
    [][epc = "install" /\ epc' = "wait" =>
          StationsKept /\ RoutesKept /\ RouteOrderKept]_vars

(***************************************************************************)
(* Properties of the store                                                 *)
(***************************************************************************)
\* No install has begun since NewStore.
NeverInstalled == lastUpdate = ZeroTime

\* C11: until the first install the store is empty: no routes, no
\* advisories, no stops near any point, and NotFound from the queries by
\* route and by identifiers for every argument.
C11_EmptyUntilInstall ==
    NeverInstalled =>
        /\ GetRoutes = <<>>
        /\ GetServiceAlerts = <<>>
        /\ \A lat \in Latitudes, lon \in Longitudes, limit \in 0..MaxLimit :
              GetStationsByLocation(lat, lon, limit)
                  = {[err |-> FALSE, result |-> <<>>]}
        /\ \A route \in QueryRoutes : GetStationsByRoute(route).err
        /\ \A ids \in QueryIDs : GetStationsByIDs(ids).err

\* A client asked the new store for the stations near a point and got none.
C11_Witness ==
    /\ NeverInstalled
    /\ held.op = "location"
    /\ held.arg[3] > 0
    /\ held.result = <<>>

\* The stations of the store that lie at the point.
StationsAt(lat, lon) == {k \in DOMAIN stations : stations[k].Location = Loc(lat, lon)}

\* A client holds the answer of the store as it is now to a proximity query.
NearAnswer == held.op = "location" /\ held.shared /\ ~held.err

\* C12: a proximity query for N stops returns min(N, number of stops) stops
\* of the snapshot, none twice, in non-decreasing order of distance, no stop
\* left out being closer than one returned; a stop that is alone at the
\* origin comes first.
C12_ClosestFirst ==
    NearAnswer =>
        LET lat == held.arg[1]
            lon == held.arg[2]
            N == held.arg[3]
            res == held.result
            ids == {res[i].ID : i \in DOMAIN res}
        IN  /\ Len(res) <= N
            /\ Len(res) = Min(N, Cardinality(DOMAIN stations))
            /\ \A i \in DOMAIN res :
                  res[i].ID \in DOMAIN stations /\ res[i] = stations[res[i].ID]
            /\ \A i, j \in DOMAIN res : res[i].ID = res[j].ID => i = j
            /\ \A i, j \in DOMAIN res :
                  i < j => DistanceTo(res[i], lat, lon) <= DistanceTo(res[j], lat, lon)
            /\ \A k \in DOMAIN stations \ ids, i \in DOMAIN res :
                  DistanceTo(res[i], lat, lon) <= DistanceTo(stations[k], lat, lon)
            /\ \A k \in DOMAIN stations :
                  (StationsAt(lat, lon) = {k} /\ N >= 1) => res[1].ID = k

\* Fewer stops were asked for than there are, the origin is a stop's own
\* coordinate, and two of the stops are equally far from it.
C12_Witness ==
    /\ NearAnswer
    /\ Len(held.result) >= 2
    /\ Len(held.result) < Cardinality(DOMAIN stations)
    /\ Cardinality(StationsAt(held.arg[1], held.arg[2])) = 1
    /\ \E k1, k2 \in DOMAIN stations :
          /\ k1 # k2
          /\ DistanceTo(stations[k1], held.arg[1], held.arg[2])
                = DistanceTo(stations[k2], held.arg[1], held.arg[2])

\* C39: GetStationsByLocation returns for every limit, negative ones too:
\* min(limit, number of stations) stations for a limit of zero or more, and
\* no station for a limit of zero or less.
C39_AnyLimitAnswered ==
    (held.op = "location" /\ held.shared) =>
        /\ ~held.err
        /\ Len(held.result) =
              IF held.arg[3] <= 0 THEN 0
              ELSE Min(held.arg[3], Cardinality(DOMAIN stations))

EndsInDate(id) ==
    Len(id) >= 8 /\ \A i \in (Len(id) - 7)..Len(id) : IsDigit(id[i])

\* Where the runs of four or more digits of the identifier begin.
RunStarts(id) ==
    {i \in DOMAIN id : /\ IsDigit(id[i])
                       /\ (i = 1 \/ ~IsDigit(id[i - 1]))
                       /\ DigitRun(id, i) >= 4}

\* The normalization as it is described: without a trailing date, the
\* identifier is cut where its first run of four or more digits begins.
Normalized(id) ==
    IF EndsInDate(id) THEN SubSeq(id, 1, Len(id) - 8)
    ELSE IF RunStarts(id) # {}
    THEN SubSeq(id, 1, (CHOOSE i \in RunStarts(id) :
                           \A j \in RunStarts(id) : i <= j) - 1)
    ELSE id

\* C13: the route code of an identifier is the identifier without its
\* trailing eight digits, else cut at its first run of four or more digits,
\* else the identifier; the routes of an advisory are normalized alike.
C13_Normalization ==
    /\ held.op = "extract" => held.result = Normalized(held.arg)
    /\ (held.op = "extract" /\ alerts # <<>>) =>
           alerts[1].Routes = IF Normalized(held.arg) = <<>> THEN <<>>
                              ELSE <<Normalized(held.arg)>>

StopIDs == {stations[k].ID : k \in DOMAIN stations}
StopOf(id) == CHOOSE st \in Range(stations) : st.ID = id

\* What the queries of the model return in the current state.
QueryAnswers ==
    [byRoute |-> [r \in QueryRoutes |-> GetStationsByRoute(r)],
     byIDs |-> [ids \in QueryIDs |-> GetStationsByIDs(ids)]]

\* C14: installing the stop map that was installed last once more leaves
\* the answers of the queries by route and by identifiers and the route
\* list as they were, in the same order, also when stops of a route have
\* the same name.
C14_Idempotent ==
    [][\A w \in Writers :
          (wpc[w] = "locked" /\ wpc'[w] = "idle" /\ InstalledFrom(warg[w]))
              => QueryAnswers' = QueryAnswers /\ GetRoutes' = GetRoutes]_vars

\* C6: a stop returned by a query is an independent copy: whatever a
\* client writes into a stop it was given (its route list, its arrival
\* lists, its map of child platforms), every query returns afterwards
\* what it returned before.
C6_IndependentCopies ==
    [][(\E i \in 1..3, field \in WriteFields : MutateHeld(i, field))
          => QueryAnswers' = QueryAnswers]_vars

C8_QueryByIDs ==
    CanRead =>
       \A ids \in QueryIDs :
          LET q == GetStationsByIDs(ids)
          IN  /\ q.err <=> Range(ids) \cap StopIDs = {}
              /\ ~q.err =>
                    /\ {q.result[j].ID : j \in DOMAIN q.result}
                          = Range(ids) \cap StopIDs
                    /\ \A j \in DOMAIN q.result :
                          q.result[j] = StopOf(q.result[j].ID)

\* A query for a known and an unknown identifier succeeded with fewer stops
\* than identifiers.
C8_Witness ==
    /\ held.op = "ids" /\ ~held.err
    /\ Range(held.arg) \ StopIDs # {}
    /\ 0 < Len(held.result) /\ Len(held.result) < Len(held.arg)

\* C9: for every route code of the snapshot (and every code asked for),
\* GetStationsByRoute(code) and GetStationsByRoute(ToLower(code)) return
\* the same, and GetStationsByRoute fails exactly when the upper-cased
\* code has no index entry.
C9_CaseInsensitive ==
    CanRead =>
       \A code \in DOMAIN stationsByRoute \cup QueryRoutes :
          /\ GetStationsByRoute(code) = GetStationsByRoute(ToLower(code))
          /\ GetStationsByRoute(code).err
                <=> ToUpper(code) \notin DOMAIN stationsByRoute

\* A reader asked for a lower-case code and got the stops of the
\* upper-case route.
C9_Witness ==
    /\ held.op = "route" /\ held.arg = <<"n">> /\ ~held.err
    /\ held.shared
    /\ held.result # <<>>
    /\ held.result = stationsByRoute[<<"N">>]

\* The stops of the current map that claim route code r.
Claiming(r) == {st \in Range(stations) : r \in Range(st.Routes)}

NameOrdered(s) == \A i \in 1..(Len(s) - 1) : ~NameLess(s[i + 1], s[i])

RoutesExact ==
    /\ Range(GetRoutes) = RouteSet(stations)
    /\ \A i \in 1..(Len(GetRoutes) - 1) : StrLess(GetRoutes[i], GetRoutes[i + 1])

\* C10 as stated: after UpdateStations(m), for every route code r,
\* GetStationsByRoute(r) returns exactly the stops of m whose route set
\* contains r, ordered by name, and GetRoutes the distinct claimed codes in
\* ascending order.
C10_AsStated ==
    CanRead =>
       /\ \A r \in QueryRoutes :
             LET q == GetStationsByRoute(r)
             IN  /\ Range(q.result) = Claiming(r)
                 /\ NoRepeats(q.result)
                 /\ NameOrdered(q.result)
       /\ RoutesExact

\* C10 amended: the stops returned for r are those of m whose route set
\* contains the upper-cased r (not found when there is none).
C10_IndexRebuilt ==
    CanRead =>
       /\ \A r \in QueryRoutes \cup DOMAIN stationsByRoute :
             LET q == GetStationsByRoute(r)
             IN  /\ Range(q.result) = Claiming(ToUpper(r))
                 /\ q.err <=> Claiming(ToUpper(r)) = {}
                 /\ NoRepeats(q.result)
                 /\ NameOrdered(q.result)
       /\ RoutesExact

\* A second install replaced a first one: a reader still holds a stop of
\* the first that the store no longer has, and the index lists the two
\* stops of the new map that claim N by name.
C10_Witness ==
    /\ CanRead
    /\ stations = ByID({StA, StB, StD})
    /\ held.op = "route" /\ held.arg = <<"Q">> /\ ~held.shared
    /\ held.result = <<StB2>>
    /\ GetStationsByRoute(<<"Q">>).result = <<StA>>
    /\ GetStationsByRoute(<<"N">>).result = <<StA, StB>>
    /\ GetRoutes = << <<"N">>, <<"Q">> >>
(***************************************************************************)
(* Properties of processTripUpdate                                         *)
(***************************************************************************)
TripDone == held.op = "trip"

\* The stop-time updates of the trip update that was processed.
TripStops == held.arg.StopTimeUpdate

\* The map after the first k stop-time updates of the trip update.
AfterStops(k) ==
    processTripUpdate([held.arg EXCEPT !.StopTimeUpdate = SubSeq(@, 1, k)],
                      TripStations, now)

HasTime(stu) ==
    /\ stu.Arrival # Null
    /\ Deref(stu.Arrival).Time # Null \/ Deref(stu.Arrival).Delay # Null

\* A stop-time update that none of the reasons to skip applies to.
ValidStop(stu, t) ==
    /\ stu.StopId # Null
    /\ HasDirection(Deref(stu.StopId))
    /\ ParentStation(Deref(stu.StopId)) \in DOMAIN TripStations
    /\ HasTime(stu)
    /\ t - ArrivalInstant(stu, t) <= Minute

\* C26: a stop-time update that is skipped does not affect the others of its
\* trip update: every stop and direction gets as many arrivals as the trip
\* update has valid stop-time updates for it.
C26_SkipPerSubEvent ==
    TripDone =>
        \A id \in DOMAIN TripStations, d \in Directions :
            Len(held.result[id].Trains[d]) =
                Cardinality({k \in DOMAIN TripStops :
                                /\ ValidStop(TripStops[k], now)
                                /\ ParentStation(Deref(TripStops[k].StopId)) = id
                                /\ Direction(Deref(TripStops[k].StopId)) = d})

\* The map after differs from the map before in one arrival more at the end
\* of the list of stop id and direction d, and in nothing else.
OneMoreAt(before, after, id, d) ==
    /\ id \in DOMAIN before
    /\ Len(after[id].Trains[d]) = Len(before[id].Trains[d]) + 1
    /\ [after EXCEPT ![id].Trains[d] = before[id].Trains[d]] = before

\* C27: a stop-time update whose stop identifier ends in N changes nothing
\* or adds one arrival to the North list of the stop named by the identifier
\* without its last character; one that ends in S does so with the South
\* list; one that ends in neither changes nothing.
C27_DirectionFromSuffix ==
    TripDone =>
        \A k \in DOMAIN TripStops :
            TripStops[k].StopId # Null =>
                LET stopID == Deref(TripStops[k].StopId)
                    parent == SubSeq(stopID, 1, Len(stopID) - 1)
                    before == AfterStops(k - 1)
                    after == AfterStops(k)
                IN  \/ after = before
                    \/ /\ stopID[Len(stopID)] = "N"
                       /\ OneMoreAt(before, after, parent, "North")
                    \/ /\ stopID[Len(stopID)] = "S"
                       /\ OneMoreAt(before, after, parent, "South")

\* A trip update has put an arrival on the North list of one stop and on the
\* South list of another, and its third stop-time update, which names a
\* known stop without a direction, has added nothing.
C27_Witness ==
    /\ TripDone
    /\ Len(TripStops) = 3
    /\ TripStops[3].StopId = Some(IdA)
    /\ Len(held.result[IdA].Trains.North) = 1
    /\ Len(held.result[IdB].Trains.South) = 1
    /\ held.result[IdA].Trains.South = <<>>
    /\ held.result[IdB].Trains.North = <<>>

\* The arrivals that are in the map after and were not in the map before.
AddedTrains(before, after) ==
    UNION {{after[p[1]].Trains[p[2]][i] :
               i \in (Len(before[p[1]].Trains[p[2]]) + 1)
                         ..Len(after[p[1]].Trains[p[2]])} :
           p \in (DOMAIN after) \X Directions}

\* C28: the arrival a stop-time update adds has the normalized route code of
\* the trip, and as its instant the timestamp of the update if it has one,
\* else the time of processing plus its delay; an update with neither adds
\* none.
C28_ArrivalInstant ==
    TripDone =>
        \A k \in DOMAIN TripStops :
            LET stu == TripStops[k]
                before == AfterStops(k - 1)
                after == AfterStops(k)
                routeID == Deref(Deref(held.arg.Trip).RouteId)
            IN  /\ ~HasTime(stu) => after = before
                /\ HasTime(stu) =>
                      AddedTrains(before, after) \subseteq
                          {Train(Normalized(routeID),
                                 IF Deref(stu.Arrival).Time # Null
                                 THEN TimeUnix(Deref(Deref(stu.Arrival).Time))
                                 ELSE now + Deref(Deref(stu.Arrival).Delay)
                                              * Second)}

====
